---- MODULE Spec2Model ----
(***************************************************************************)
(* The useThrottleRequests hook: a scheduler (throttleRequests) that runs  *)
(* a list of request functions with a cap on the number in flight, and a   *)
(* reducer (createThrottledProgress / updateThrottledProgress) that        *)
(* accumulates the outcomes the requests report.                           *)
(*                                                                         *)
(* JavaScript runs every synchronous stretch of code to completion, so an  *)
(* action of the model is one such stretch: the call of queueRequests up   *)
(* to its first await, the continuation of an await, the callback of a     *)
(* then(), one step of a request function.                                 *)
(*                                                                         *)
(* A JavaScript value is written as the text of its literal: "0" is the    *)
(* number 0, "''" the empty string, "{}" an object.                        *)
(***************************************************************************)
EXTENDS Integers, Sequences, FiniteSets, TLC

\* Bounds of the exploration. One call of queueRequests takes up to
\* MaxRequests requests and a limit up to MaxLimit; overlapping calls are up to
\* MaxBatches, of MaxUnits requests together.
MaxRequests == 4
MaxLimit == 3
MaxBatches == 2
MaxUnits == 3
\* The reducer alone takes totals up to MaxTotal and holds up to MaxReports
\* outcomes.
MaxTotal == 3
MaxReports == 4

\* The totals tried for the percentage: the 4 requests of a small batch, and
\* batches of MidTotal and LargeTotal requests.
MidTotal == 40
LargeTotal == 200
LargeTotals == {4, MidTotal, LargeTotal}

\* maxParallelRequests = 6, the default of throttleRequests and queueRequests.
DefaultLimit == 6

\* An absent property of an object reads as undefined.
Undefined == "undefined"

\* The values a request may pass to requestSucceededWithData (TValue is
\* unconstrained) and the Error objects it may pass to requestFailedWithError.
Values == {"0", "''", "false", "null", "{}"}
Errors == {"Error(net)"}

\* The values tried on the reducer alone: a falsy one and two objects.
ReducerValues == {"0", "{}", "[]"}

\* The limits a caller passes to queueRequests (none passed is the default),
\* and the ones tried for overlapping calls: one at a time, and the default.
Limits == ((-1)..MaxLimit) \cup {DefaultLimit}
OverlapLimits == {1, DefaultLimit}

\* throttle is the state of the reducer, runs the calls of throttleRequests,
\* reactions the then() reactions queued and not yet run. last is kept by the
\* specification of the reducer alone: the action last applied to it and the
\* snapshot it was applied to.
VARIABLES throttle, runs, reactions, last

vars == <<throttle, runs, reactions, last>>

----------------------------------------------------------------------------
\* JavaScript's conversion of a value to a boolean, as the conditional
\* operator applies it: undefined, null, false, 0, NaN and '' are falsy.
Truthy(x) == x \notin {"undefined", "null", "false", "0", "NaN", "''"}

\* Math.round(num / den * 100) for num >= 0, den > 0, in the double arithmetic
\* of the code: q = num / den is rounded to 53 significant bits, q * 100 is
\* rounded again, and Math.round takes the nearest integer, halves up.
\*
\* The two roundings move the result by less than 2^-44 of its size, and an
\* exact 100 * num / den that is not k + 1/2 is at least 1 / (2 * den) away
\* from every k + 1/2: there the result is the exact one rounded. Where the
\* exact value is X = k + 1/2 (a double), the result is k + 1 unless q * 100
\* rounds to a double below X: q was rounded down, by r / den units of its
\* last place (r the remainder of the 53-bit division), and 100 times that is
\* more than half the gap between X and the double before it.

RECURSIVE Pow2(_)
Pow2(n) == IF n = 0 THEN 1 ELSE 2 * Pow2(n - 1)

\* The binary exponent of num / den: the e with 2^e <= num / den < 2^(e+1).
RECURSIVE Exponent(_, _)
Exponent(num, den) ==
    IF num >= 2 * den THEN Exponent(num, 2 * den) + 1
    ELSE IF num < den THEN Exponent(2 * num, den) - 1
    ELSE 0

\* (x * 2^n) % d.
RECURSIVE ShiftMod(_, _, _)
ShiftMod(x, n, d) == IF n = 0 THEN x % d ELSE ShiftMod((2 * x) % d, n - 1, d)

\* For 100 * num / den = k + 1/2 exactly: the double (num / den) * 100 is
\* below k + 1/2.
ProductBelowHalf(num, den, k) ==
    LET e == Exponent(num, den)
        m == Exponent(2 * k + 1, 2)
        \* num * 2^(52-e) = M * den + r, M the 53 bits of the quotient
        r2 == ShiftMod(num, 52 - e, 2 * den)
        r == r2 % den
        \* round to nearest, ties to the even M
        roundedDown == r # 0 /\ (2 * r < den \/ (2 * r = den /\ r2 < den))
        \* the doubles below a power of two are twice as dense
        scale == IF 2 * k + 1 = Pow2(m + 1) THEN 400 ELSE 200
    IN  roundedDown /\ scale * r > den * Pow2(m - e)

MathRound(num, den) ==
    IF (200 * num) % den # 0 \/ ((200 * num) \div den) % 2 = 0
    THEN (200 * num + den) \div (2 * den)
    ELSE LET k == ((200 * num) \div den - 1) \div 2
         IN  IF ProductBelowHalf(num, den, k) THEN k ELSE k + 1

createThrottledProgress(totalRequests) ==
    [totalRequests |-> totalRequests,
     percentageLoaded |-> 0,
     loading |-> FALSE,
     errors |-> <<>>,
     values |-> <<>>]

\* The update putting the new value and error first.
updateThrottledProgress_Prepends(currentProgress, newData) ==
    LET errors == IF Truthy(newData.error)
                  THEN <<newData.error>> \o currentProgress.errors
                  ELSE currentProgress.errors
        values == IF Truthy(newData.value)
                  THEN <<newData.value>> \o currentProgress.values
                  ELSE currentProgress.values
    IN  [totalRequests |-> currentProgress.totalRequests,
         loading |-> IF currentProgress.totalRequests = 0
                     THEN FALSE
                     ELSE Len(errors) + Len(values) < currentProgress.totalRequests,
         percentageLoaded |-> IF currentProgress.totalRequests = 0
                              THEN 0
                              ELSE MathRound(Len(errors) + Len(values),
                                             currentProgress.totalRequests),
         errors |-> errors,
         values |-> values]

\* The update returning the number of outcomes as totalRequests.
updateThrottledProgress_TotalFromCount(currentProgress, newData) ==
    LET errors == IF Truthy(newData.error)
                  THEN Append(currentProgress.errors, newData.error)
                  ELSE currentProgress.errors
        values == IF Truthy(newData.value)
                  THEN Append(currentProgress.values, newData.value)
                  ELSE currentProgress.values
    IN  [totalRequests |-> Len(errors) + Len(values),
         loading |-> FALSE,
         percentageLoaded |-> 100,
         errors |-> errors,
         values |-> values]

updateThrottledProgress(currentProgress, newData) ==
    LET errors == IF Truthy(newData.error)
                  THEN Append(currentProgress.errors, newData.error)
                  ELSE currentProgress.errors
        values == IF Truthy(newData.value)
                  THEN Append(currentProgress.values, newData.value)
                  ELSE currentProgress.values
        percentageLoaded ==
            IF currentProgress.totalRequests = 0
            THEN 0
            ELSE MathRound(Len(errors) + Len(values), currentProgress.totalRequests)
        loading ==
            IF currentProgress.totalRequests = 0
            THEN FALSE
            ELSE Len(errors) + Len(values) < currentProgress.totalRequests
    IN  [totalRequests |-> currentProgress.totalRequests,
         loading |-> loading,
         percentageLoaded |-> percentageLoaded,
         errors |-> errors,
         values |-> values]

\* 'initialise' keeping the outcomes of the snapshot it replaces.
reducer_KeepsOutcomes(throttledProgressAndState, action) ==
    CASE action.type = "initialise" ->
            [createThrottledProgress(action.totalRequests) EXCEPT
                !.values = throttledProgressAndState.values,
                !.errors = throttledProgressAndState.errors]
      [] action.type = "requestSuccess" ->
            updateThrottledProgress(throttledProgressAndState,
                [loading |-> FALSE, value |-> action.value, error |-> Undefined])
      [] action.type = "requestFailed" ->
            updateThrottledProgress(throttledProgressAndState,
                [loading |-> FALSE, value |-> Undefined, error |-> action.error])

reducer(throttledProgressAndState, action) ==
    CASE action.type = "initialise" ->
            createThrottledProgress(action.totalRequests)
      [] action.type = "requestSuccess" ->
            updateThrottledProgress(throttledProgressAndState,
                [loading |-> FALSE, value |-> action.value, error |-> Undefined])
      [] action.type = "requestFailed" ->
            updateThrottledProgress(throttledProgressAndState,
                [loading |-> FALSE, value |-> Undefined, error |-> action.error])

\* dispatch of useReducer: the actions are applied one after the other, each
\* to the state the previous one produced.
dispatch(action) == throttle' = reducer(throttle, action)

----------------------------------------------------------------------------
\* indexOf not finding the promise.
indexOf_NotFound(queue, x) == -1

\* Array.prototype.indexOf and splice(start, 1) on the queue (0-based).
indexOf(queue, x) ==
    IF \E i \in 1..Len(queue) : queue[i] = x
    THEN (CHOOSE i \in 1..Len(queue) :
            queue[i] = x /\ \A j \in 1..(i - 1) : queue[j] # x) - 1
    ELSE -1

splice(queue, start) ==
    LET from == IF start < 0
                THEN (IF Len(queue) + start < 0 THEN 0 ELSE Len(queue) + start)
                ELSE (IF start > Len(queue) THEN Len(queue) ELSE start)
    IN  [i \in 1..(Len(queue) - (IF from < Len(queue) THEN 1 ELSE 0)) |->
            IF i <= from THEN queue[i] ELSE queue[i + 1]]

\* One call of throttleRequests. index counts the requests the for loop has
\* taken from requestsToMake; unit[i] is where request i stands:
\*   pending    not called yet
\*   running    called, its promise pending, nothing reported
\*   fulfilled  it has reported its outcome and returned: its promise is
\*              fulfilled, the then() callback not yet run
\*   rejecting  its promise is rejected, the then() promise not yet settled
\*   removed    the then() callback has spliced it from the queue
\*   rejected   the then() promise is rejected (the callback never runs)
\* pc is where the async function stands:
\*   race / all       awaiting Promise.race(queue) / Promise.all(queue)
\*   resume / return  the awaited race / all is fulfilled, continuation due
\*   throw            the awaited promise is rejected, continuation due
\*   done / failed    the promise of throttleRequests is fulfilled / rejected
newRun(requestsToMake, maxParallelRequests) ==
    [requestsToMake |-> requestsToMake,
     maxParallelRequests |-> maxParallelRequests,
     index |-> 0,
     queue |-> <<>>,
     unit |-> [i \in 1..requestsToMake |-> "pending"],
     pc |-> "call"]

HasRejected(run) == \E i \in 1..Len(run.queue) : run.unit[run.queue[i]] = "rejected"

\* The race fulfilled without any promise of the queue being settled.
AwaitRace_NotAwaited(run) ==
    [run EXCEPT !.pc = IF HasRejected(run) THEN "throw" ELSE "resume"]

\* await Promise.race(queue): a promise of the queue that is already rejected
\* settles the race at once.
AwaitRace(run) ==
    [run EXCEPT !.pc = IF HasRejected(run) THEN "throw" ELSE "race"]

\* Promise.all never settling for an empty queue.
AwaitAll_WaitsOnEmpty(run) ==
    [run EXCEPT !.pc = IF HasRejected(run) THEN "throw" ELSE "all"]

\* The function returning without waiting for the rest of the calls.
AwaitAll_NotAwaited(run) == [run EXCEPT !.pc = "return"]

\* await Promise.all(queue): fulfilled at once for an empty queue, rejected at
\* once when a promise of the queue is already rejected.
AwaitAll(run) ==
    [run EXCEPT !.pc = IF HasRejected(run) THEN "throw"
                       ELSE IF run.queue = <<>> THEN "return"
                       ELSE "all"]

\* The loop calling the first request of the list again with every other.
StartRequest_CallsFirstAgain(run) ==
    [run EXCEPT !.index = @ + 1,
                !.unit = [i \in 1..run.requestsToMake |->
                            IF i = 1 \/ i = run.index + 1 THEN "running" ELSE @[i]],
                !.queue = Append(@, run.index + 1)]

\* The loop taking the requests from the end of the list.
StartRequest_FromEnd(run) ==
    [run EXCEPT !.index = @ + 1,
                !.unit[run.requestsToMake - run.index] = "running",
                !.queue = Append(@, run.requestsToMake - run.index)]

\* requestToMake().then(...) and queue.push(promise) for the next request.
StartRequest(run) ==
    [run EXCEPT !.index = @ + 1,
                !.unit[run.index + 1] = "running",
                !.queue = Append(@, run.index + 1)]

\* The for loop waiting only once the queue is longer than the limit.
RECURSIVE ForLoop_OffByOne(_)
ForLoop_OffByOne(run) ==
    IF run.index = run.requestsToMake
    THEN AwaitAll(run)
    ELSE LET started == StartRequest(run)
         IN  IF Len(started.queue) > started.maxParallelRequests
             THEN AwaitRace(started)
             ELSE ForLoop_OffByOne(started)

\* The for loop, from the request after run.index up to the next await.
RECURSIVE ForLoop(_)
ForLoop(run) ==
    IF run.index = run.requestsToMake
    THEN AwaitAll(run)
    ELSE LET started == StartRequest(run)
         IN  IF Len(started.queue) >= started.maxParallelRequests
             THEN AwaitRace(started)
             ELSE ForLoop(started)

throttleRequests(requestsToMake, maxParallelRequests) ==
    ForLoop(newRun(requestsToMake, maxParallelRequests))

\* The race settling only once every promise of the queue has been spliced.
ThenReaction_WaitAll(run, u) ==
    IF run.unit[u] = "fulfilled"
    THEN LET queue == splice(run.queue, indexOf(run.queue, u))
         IN  [run EXCEPT !.queue = queue,
                         !.unit[u] = "removed",
                         !.pc = IF @ = "race" /\ queue = <<>> THEN "resume"
                                ELSE IF @ = "all" /\ queue = <<>> THEN "return"
                                ELSE @]
    ELSE [run EXCEPT !.unit[u] = "rejected",
                     !.pc = IF @ \in {"race", "all"} THEN "throw" ELSE @]

\* The reaction of the then() on request u's promise: the callback splices the
\* promise from the queue and fulfils it, or the rejection passes through; the
\* promise settled, the race or all the function awaits settles with it.
ThenReaction(run, u) ==
    IF run.unit[u] = "fulfilled"
    THEN LET queue == splice(run.queue, indexOf(run.queue, u))
         IN  [run EXCEPT !.queue = queue,
                         !.unit[u] = "removed",
                         !.pc = IF @ = "race" THEN "resume"
                                ELSE IF @ = "all" /\ queue = <<>> THEN "return"
                                ELSE @]
    ELSE [run EXCEPT !.unit[u] = "rejected",
                     !.pc = IF @ \in {"race", "all"} THEN "throw" ELSE @]

\* The continuation of the await.
Continuation(run) ==
    CASE run.pc = "resume" -> ForLoop(run)
      [] run.pc = "return" -> [run EXCEPT !.pc = "done"]
      [] run.pc = "throw" -> [run EXCEPT !.pc = "failed"]

----------------------------------------------------------------------------
RECURSIVE SumRequests(_)
SumRequests(rs) ==
    IF rs = <<>> THEN 0 ELSE Head(rs).requestsToMake + SumRequests(Tail(rs))

NoAction == [action |-> [type |-> "none"], before |-> createThrottledProgress(0)]

Init ==
    /\ throttle = createThrottledProgress(0)
    /\ runs = <<>>
    /\ reactions = <<>>
    /\ last = NoAction

\* queueRequests(requestsToMake, maxParallelRequests): dispatches
\* 'initialise' and calls throttleRequests, which runs up to its first await.
queueRequests(n, limit) ==
    /\ Len(runs) < MaxBatches
    /\ SumRequests(runs) + n <= MaxUnits
    /\ dispatch([type |-> "initialise", totalRequests |-> n])
    /\ runs' = Append(runs, throttleRequests(n, limit))
    /\ UNCHANGED <<reactions, last>>

\* A request reporting its value twice before it returns.
requestSucceededWithData_Twice(r, u, value) ==
    /\ runs[r].unit[u] = "running"
    /\ throttle' = reducer(reducer(throttle, [type |-> "requestSuccess", value |-> value]),
                           [type |-> "requestSuccess", value |-> value])
    /\ runs' = [runs EXCEPT ![r].unit[u] = "fulfilled"]
    /\ reactions' = Append(reactions, <<r, u>>)
    /\ UNCHANGED last

\* A request calls requestSucceededWithData(value) and returns, as the
\* requests of use10_000Requests do: the outcome is dispatched, the request's
\* promise is fulfilled and the reaction of its then() is queued.
requestSucceededWithData(r, u, value) ==
    /\ runs[r].unit[u] = "running"
    /\ dispatch([type |-> "requestSuccess", value |-> value])
    /\ runs' = [runs EXCEPT ![r].unit[u] = "fulfilled"]
    /\ reactions' = Append(reactions, <<r, u>>)
    /\ UNCHANGED last

\* A request calls requestFailedWithError(error) and returns.
requestFailedWithError(r, u, error) ==
    /\ runs[r].unit[u] = "running"
    /\ dispatch([type |-> "requestFailed", error |-> error])
    /\ runs' = [runs EXCEPT ![r].unit[u] = "fulfilled"]
    /\ reactions' = Append(reactions, <<r, u>>)
    /\ UNCHANGED last

\* A request throws without reporting: its promise is rejected.
RequestRejects(r, u) ==
    /\ runs[r].unit[u] = "running"
    /\ runs' = [runs EXCEPT ![r].unit[u] = "rejecting"]
    /\ reactions' = Append(reactions, <<r, u>>)
    /\ UNCHANGED <<throttle, last>>

\* The oldest queued reaction runs.
RunReaction ==
    /\ reactions # <<>>
    /\ LET r == Head(reactions)[1]
           u == Head(reactions)[2]
       IN  runs' = [runs EXCEPT ![r] = ThenReaction(runs[r], u)]
    /\ reactions' = Tail(reactions)
    /\ UNCHANGED <<throttle, last>>

\* The continuation of the await clearing the outcomes of the snapshot.
Resume_ClearsProgress(r) ==
    /\ runs[r].pc \in {"resume", "return", "throw"}
    /\ runs' = [runs EXCEPT ![r] = Continuation(runs[r])]
    /\ throttle' = createThrottledProgress(throttle.totalRequests)
    /\ UNCHANGED <<reactions, last>>

\* throttleRequests resumes after its await.
Resume(r) ==
    /\ runs[r].pc \in {"resume", "return", "throw"}
    /\ runs' = [runs EXCEPT ![r] = Continuation(runs[r])]
    /\ UNCHANGED <<throttle, reactions, last>>

RunIds == 1..Len(runs)
UnitIds(r) == 1..runs[r].requestsToMake

Report ==
    \/ \E r \in RunIds : \E u \in UnitIds(r) : \E value \in Values :
            requestSucceededWithData(r, u, value)
    \/ \E r \in RunIds : \E u \in UnitIds(r) : \E error \in Errors :
            requestFailedWithError(r, u, error)

Reject == \E r \in RunIds : \E u \in UnitIds(r) : RequestRejects(r, u)

Await == \E r \in RunIds : Resume(r)

\* The hook, with calls of queueRequests that may overlap.
Call == \E n \in 0..MaxUnits, limit \in OverlapLimits : queueRequests(n, limit)

Next == Call \/ Report \/ Reject \/ RunReaction \/ Await

Spec == Init /\ [][Next]_vars

\* The hook with one call of queueRequests.
CallOnce ==
    /\ runs = <<>>
    /\ \E n \in 0..MaxRequests, limit \in Limits :
            /\ dispatch([type |-> "initialise", totalRequests |-> n])
            /\ runs' = <<throttleRequests(n, limit)>>
            /\ UNCHANGED <<reactions, last>>

NextBatch == CallOnce \/ Report \/ Reject \/ RunReaction \/ Await

SpecBatch == Init /\ [][NextBatch]_vars

\* The hook as use10_000Requests uses it: one call of queueRequests, with
\* requests that catch what they throw, so that each reports a value or an
\* error and returns.
NextApp == CallOnce \/ Report \/ RunReaction \/ Await

SpecApp == Init /\ [][NextApp]_vars

\* The reducer alone, under any sequence of the three actions the hook
\* dispatches: last records each action and the snapshot it was applied to.
Dispatch(action) ==
    /\ action.type # "initialise" => Len(throttle.values) + Len(throttle.errors) < MaxReports
    /\ dispatch(action)
    /\ last' = [action |-> action, before |-> throttle]
    /\ UNCHANGED <<runs, reactions>>

NextReducer ==
    \/ \E n \in 0..MaxTotal : Dispatch([type |-> "initialise", totalRequests |-> n])
    \/ \E value \in ReducerValues : Dispatch([type |-> "requestSuccess", value |-> value])
    \/ \E error \in Errors : Dispatch([type |-> "requestFailed", error |-> error])

SpecReducer == Init /\ [][NextReducer]_vars

\* The reducer under batches of many requests, each reporting one counted
\* outcome: no report once the snapshot holds totalRequests outcomes.
DispatchCounted(action) ==
    /\ action.type # "initialise" =>
            Len(throttle.values) + Len(throttle.errors) < throttle.totalRequests
    /\ dispatch(action)
    /\ last' = [action |-> action, before |-> throttle]
    /\ UNCHANGED <<runs, reactions>>

NextPercent ==
    \/ \E n \in LargeTotals : DispatchCounted([type |-> "initialise", totalRequests |-> n])
    \/ DispatchCounted([type |-> "requestSuccess", value |-> "{}"])
    \/ \E error \in Errors : DispatchCounted([type |-> "requestFailed", error |-> error])

SpecPercent == Init /\ [][NextPercent]_vars

\* The same, every request that was called eventually returning or throwing,
\* every queued reaction and every due continuation eventually running.
FairSpecBatch ==
    /\ SpecBatch
    /\ WF_vars(Report \/ Reject)
    /\ WF_vars(RunReaction)
    /\ WF_vars(Await)

----------------------------------------------------------------------------
\* Vocabulary of the properties.

\* The requests of a call that were called and whose promise is still pending.
InFlight(run) == {i \in 1..run.requestsToMake : run.unit[i] = "running"}

\* Request i has finished: it returned or threw.
Finished(run, i) == run.unit[i] \in {"fulfilled", "rejecting", "removed", "rejected"}

\* The number of outcomes the snapshot holds.
Completed == Len(throttle.values) + Len(throttle.errors)

\* C1: with a limit k >= 1 at most k requests are in flight, and request k+1
\* is not called before one of the first k has finished.
C1_ConcurrencyCeiling ==
    \A r \in RunIds :
        LET run == runs[r]
            k == run.maxParallelRequests
        IN  k >= 1 =>
              /\ Cardinality(InFlight(run)) <= k
              /\ run.index > k => \E i \in 1..k : Finished(run, i)

\* The limit is reached with more requests than the limit already called.
C1_Witness ==
    \E r \in RunIds :
        /\ runs[r].maxParallelRequests = 2
        /\ runs[r].index > 2
        /\ Cardinality(InFlight(runs[r])) = 2

\* C2: once throttleRequests has completed for a batch of n requests, each of
\* which reported one outcome, the snapshot holds exactly n outcomes.
C2_Completeness ==
    \A r \in RunIds :
        runs[r].pc = "done" => Completed = runs[r].requestsToMake

\* C3: requestSucceededWithData(v) appends v to values and leaves errors
\* alone, for every v; requestFailedWithError(e) appends e to errors and
\* leaves values alone.
C3_ReportAppendsOne ==
    [][\A r \in RunIds : \A u \in UnitIds(r) :
          /\ \A value \in Values :
                requestSucceededWithData(r, u, value) =>
                    /\ throttle'.values = Append(throttle.values, value)
                    /\ throttle'.errors = throttle.errors
          /\ \A error \in Errors :
                requestFailedWithError(r, u, error) =>
                    /\ throttle'.errors = Append(throttle.errors, error)
                    /\ throttle'.values = throttle.values]_vars

\* C4: a request that fails, also by a rejected promise, never makes
\* throttleRequests fail: with a limit >= 1 its promise is never rejected and
\* the failed request does not stay in the queue.
C4_FailureContained ==
    \A r \in RunIds :
        runs[r].maxParallelRequests >= 1 =>
            /\ runs[r].pc # "failed"
            /\ ~HasRejected(runs[r])

\* C5: loading is false before any batch; in a batch of n > 0 requests it is
\* true from the snapshot 'initialise' produces up to, and not including, the
\* snapshot that holds n outcomes.
C5_LoadingFlag ==
    /\ runs = <<>> => ~throttle.loading
    /\ (runs # <<>> /\ throttle.totalRequests > 0) =>
            (throttle.loading <=> Completed < throttle.totalRequests)

\* C6: after the first 'initialise' the snapshot never holds more outcomes
\* than totalRequests.
C6_CountInvariant ==
    runs # <<>> => Completed <= throttle.totalRequests

\* C7: percentageLoaded is an integer from 0 to 100 in every snapshot.
C7_PercentageRange ==
    /\ throttle.percentageLoaded \in Int
    /\ 0 <= throttle.percentageLoaded
    /\ throttle.percentageLoaded <= 100

\* C8: within a batch percentageLoaded never decreases, and once all n
\* requests have reported it is 100 with loading false (0 when n = 0).
C8_Monotonicity ==
    /\ [][throttle'.percentageLoaded >= throttle.percentageLoaded]_vars
    /\ [](\A r \in RunIds :
            runs[r].pc = "done" =>
                IF runs[r].requestsToMake > 0
                THEN throttle.percentageLoaded = 100 /\ ~throttle.loading
                ELSE throttle.percentageLoaded = 0)

\* C9: throttleRequests completes only when every request of the list has
\* been called and has finished, the queue empty.
C9_NoEarlyCompletion ==
    \A r \in RunIds :
        runs[r].pc = "done" =>
            /\ runs[r].index = runs[r].requestsToMake
            /\ runs[r].queue = <<>>
            /\ \A i \in 1..runs[r].requestsToMake : runs[r].unit[i] = "removed"

\* A call with more requests than its limit has completed.
C9_Witness ==
    \E r \in RunIds :
        /\ runs[r].pc = "done"
        /\ runs[r].maxParallelRequests = 2
        /\ runs[r].requestsToMake = 4

\* C10: with a limit >= 1, every called request eventually finishing,
\* throttleRequests eventually completes.
C10_Termination ==
    (runs # <<>> /\ runs[1].maxParallelRequests >= 1)
        ~> (runs # <<>> /\ runs[1].pc = "done")

\* C11: a call with maxParallelRequests <= 0 fails at once: its promise is
\* rejected and no request of the list is called (stated for the lists that
\* hold a request).
C11_MisconfiguredLimit ==
    \A r \in RunIds :
        (runs[r].maxParallelRequests <= 0 /\ runs[r].requestsToMake >= 1) =>
            /\ runs[r].pc = "failed"
            /\ runs[r].index = 0

\* C12: 'initialise' with total n, applied to any snapshot, yields a snapshot
\* with totalRequests = n, no values, no errors and percentageLoaded = 0.
C12_UnconditionalReset ==
    last.action.type = "initialise" =>
        /\ throttle.totalRequests = last.action.totalRequests
        /\ throttle.values = <<>>
        /\ throttle.errors = <<>>
        /\ throttle.percentageLoaded = 0

\* 'initialise' was applied to a snapshot that held values and errors and
\* was loading.
C12_Witness ==
    /\ last.action.type = "initialise"
    /\ last.action.totalRequests = 2
    /\ Len(last.before.values) >= 1
    /\ Len(last.before.errors) >= 1
    /\ last.before.loading

\* C13: the requests are called in the order of the list: the ones called
\* are always the first index ones, and the queue, which holds them in the
\* order they were called, is in the order of the list.
C13_FifoAdmission ==
    \A r \in RunIds :
        LET run == runs[r]
        IN  /\ \A i \in 1..run.requestsToMake :
                  run.unit[i] # "pending" <=> i <= run.index
            /\ \A i, j \in 1..Len(run.queue) :
                  i < j => run.queue[i] < run.queue[j]

\* The second request has completed before the first, and the third was
\* called with the fourth still to call.
C13_Witness ==
    \E r \in RunIds :
        /\ runs[r].requestsToMake = 4
        /\ runs[r].index = 3
        /\ runs[r].unit[1] = "running"
        /\ runs[r].unit[2] = "removed"
        /\ runs[r].unit[3] = "running"

\* C14: a report leaves totalRequests as it was; only 'initialise' changes it.
C14_TotalFixed ==
    /\ last.action.type \in {"requestSuccess", "requestFailed"} =>
            throttle.totalRequests = last.before.totalRequests
    /\ throttle.totalRequests # last.before.totalRequests =>
            last.action.type = "initialise"

\* A value was reported to a batch of three that already held an outcome.
C14_Witness ==
    /\ last.action.type = "requestSuccess"
    /\ throttle.totalRequests = 3
    /\ Len(throttle.values) + Len(throttle.errors) = 2
    /\ Len(last.before.values) + Len(last.before.errors) = 1

\* C15: a call of queueRequests leaves the snapshot 'initialise' produces for
\* its list (no outcome applied yet), and every snapshot produced by an outcome
\* of a batch has that batch's length as totalRequests.
C15_BatchStartPrecedesWork ==
    [][/\ Len(runs') > Len(runs) =>
            throttle' = createThrottledProgress(runs'[Len(runs')].requestsToMake)
       /\ \A r \in RunIds : \A u \in UnitIds(r) :
            (runs[r].unit[u] = "running" /\ runs'[r].unit[u] = "fulfilled") =>
                throttle'.totalRequests = runs[r].requestsToMake]_vars

\* C16: in a batch of n > 0 requests loading is false, then true, then false:
\* it rises once, from the snapshot without outcomes, it falls once, with the
\* outcome that brings the count to n, and that outcome does find it true, for
\* n == 1 too.
C16_LoadingTogglesOnce ==
    [][/\ (~throttle.loading /\ throttle'.loading) => Completed = 0
       /\ (throttle.loading /\ ~throttle'.loading) =>
            Completed' = throttle'.totalRequests
       /\ (/\ runs # <<>>
           /\ throttle.totalRequests > 0
           /\ Completed < throttle.totalRequests
           /\ Completed' = throttle.totalRequests) =>
            (throttle.loading /\ ~throttle'.loading)]_vars

\* C17: once queueRequests has been called again, an outcome reported by a
\* request of the earlier call leaves the values and errors of the snapshot as
\* they are, and the snapshot holds no more outcomes than its totalRequests.
C17_BatchesIsolated ==
    [][\A r \in RunIds : \A u \in UnitIds(r) :
            (/\ r < Len(runs)
             /\ runs[r].unit[u] = "running"
             /\ runs'[r].unit[u] = "fulfilled") =>
                /\ throttle'.values = throttle.values
                /\ throttle'.errors = throttle.errors
                /\ Completed' <= throttle'.totalRequests]_vars

\* The requests of the queue that have finished, their then() reaction not
\* yet run.
Settling(run) ==
    {i \in 1..run.requestsToMake :
        run.unit[i] \in {"fulfilled", "rejecting"}
        /\ \E j \in 1..Len(run.queue) : run.queue[j] = i}

\* C18 as stated, for calls none of whose requests has thrown: with a limit
\* k >= 1, requests still pending and at least k called, exactly k requests
\* are in flight.
C18_PoolSaturation ==
    \A r \in RunIds :
        LET run == runs[r]
            k == run.maxParallelRequests
        IN  (/\ k >= 1
             /\ run.index < run.requestsToMake
             /\ run.index >= k
             /\ \A i \in 1..run.requestsToMake :
                    run.unit[i] \notin {"rejecting", "rejected"}) =>
                Cardinality(InFlight(run)) = k

\* C18 amended: with a limit k >= 1, while throttleRequests awaits
\* Promise.race with requests still pending, its queue holds exactly k
\* requests, each in flight or finished with its then() reaction still to run.
C18_QueueSaturated ==
    \A r \in RunIds :
        LET run == runs[r]
            k == run.maxParallelRequests
        IN  (k >= 1 /\ run.index < run.requestsToMake /\ run.pc = "race") =>
                /\ Len(run.queue) = k
                /\ run.index >= k
                /\ Cardinality(InFlight(run)) + Cardinality(Settling(run)) = k

\* The window has slid once and is full again, one request still pending.
C18_Witness ==
    \E r \in RunIds :
        /\ runs[r].maxParallelRequests = 2
        /\ runs[r].requestsToMake = 4
        /\ runs[r].index = 3
        /\ runs[r].pc = "race"
        /\ runs[r].unit[1] = "removed"
        /\ InFlight(runs[r]) = {2, 3}

\* C19: while throttleRequests awaits Promise.race, the then() callback of any
\* one request fulfils the race whatever the other requests of the queue are
\* doing, and the continuation of that await calls the next pending request.
C19_ReplaceOnCompletion ==
    [][\A r \in RunIds :
            LET run == runs[r]
                next == runs'[r]
            IN  r <= Len(runs') =>
                /\ (/\ run.pc = "race"
                    /\ \E u \in UnitIds(r) :
                            run.unit[u] = "fulfilled" /\ next.unit[u] = "removed") =>
                        next.pc = "resume"
                /\ (/\ run.pc = "resume"
                    /\ next.pc # "resume"
                    /\ run.index < run.requestsToMake) =>
                        /\ next.index > run.index
                        /\ next.unit[run.index + 1] = "running"]_vars

\* With a limit of 3, request 4 has been called after request 2 alone has
\* completed: requests 1 and 3 are still in flight.
C19_Witness ==
    \E r \in RunIds :
        /\ runs[r].maxParallelRequests = 3
        /\ runs[r].requestsToMake = 4
        /\ runs[r].index = 4
        /\ runs[r].unit[2] = "removed"
        /\ InFlight(runs[r]) = {1, 3, 4}

\* C20 as stated, for the first k requests: with a limit k >= 1, while one of
\* them is in flight, not completed, no request beyond the first k is called.
C20_StallOnHungUnit ==
    \A r \in RunIds :
        LET run == runs[r]
            k == run.maxParallelRequests
        IN  k >= 1 =>
                \A u \in 1..k :
                    (u <= run.requestsToMake /\ run.unit[u] = "running") =>
                        run.index <= k

\* C20 amended: with a limit k >= 1, throttleRequests calls a further request
\* only when fewer than k of the called requests are in flight; with k requests
\* in flight that never complete it calls no other.
C20_StartNeedsFreeSlot ==
    [][\A r \in RunIds :
            LET run == runs[r]
                k == run.maxParallelRequests
            IN  (r <= Len(runs') /\ k >= 1 /\ runs'[r].index > run.index) =>
                    Cardinality(InFlight(run)) < k]_vars

\* With a limit of 2, request 1 has not completed and requests 3 and 4 have
\* been called in the place of request 2.
C20_Witness ==
    \E r \in RunIds :
        /\ runs[r].maxParallelRequests = 2
        /\ runs[r].requestsToMake = 4
        /\ runs[r].index = 4
        /\ runs[r].unit[2] = "removed"
        /\ runs[r].unit[3] = "removed"
        /\ InFlight(runs[r]) = {1, 4}

\* s is t, or t with entries added at its end.
IsPrefix(t, s) == Len(t) <= Len(s) /\ SubSeq(s, 1, Len(t)) = t

\* C21: a report leaves the values and errors the snapshot held where they
\* were: the new values (errors) are the old ones, with the reported value
\* (error), if any is added, at the end.
C21_AppendOnly ==
    last.action.type \in {"requestSuccess", "requestFailed"} =>
        /\ IsPrefix(last.before.values, throttle.values)
        /\ IsPrefix(last.before.errors, throttle.errors)
        /\ Len(throttle.values) <= Len(last.before.values) + 1
        /\ Len(throttle.errors) <= Len(last.before.errors) + 1
        /\ Len(throttle.values) > Len(last.before.values) =>
                /\ last.action.type = "requestSuccess"
                /\ throttle.values = Append(last.before.values, last.action.value)
        /\ Len(throttle.errors) > Len(last.before.errors) =>
                /\ last.action.type = "requestFailed"
                /\ throttle.errors = Append(last.before.errors, last.action.error)

\* Three values reported since 'initialise' are held in the order reported,
\* which is neither sorted nor free of repeats; an error came in between.
C21_Witness ==
    /\ last.action.type = "requestSuccess"
    /\ throttle.values = <<"{}", "[]", "{}">>
    /\ last.before.values = <<"{}", "[]">>
    /\ throttle.errors = <<"Error(net)">>

\* C22: after a report percentageLoaded is 0 for totalRequests == 0, and
\* otherwise 100 * (values.length + errors.length) / totalRequests rounded to
\* the nearest integer, halves up: (200 * count + total) \div (2 * total).
C22_PercentageFormula ==
    last.action.type \in {"requestSuccess", "requestFailed"} =>
        throttle.percentageLoaded =
            IF throttle.totalRequests = 0
            THEN 0
            ELSE (200 * Completed + throttle.totalRequests)
                    \div (2 * throttle.totalRequests)

\* C23: queueRequests([], limit), whatever the limit, calls no request, has
\* nothing to await (Promise.all of the empty queue is fulfilled at once, and
\* so is the call at its continuation) and leaves the snapshot of an empty
\* batch: totalRequests 0, percentageLoaded 0, loading false, no values, no
\* errors.
C23_EmptyBatch ==
    \A r \in RunIds :
        runs[r].requestsToMake = 0 =>
            /\ runs[r].pc \in {"return", "done"}
            /\ runs[r].index = 0
            /\ runs[r].queue = <<>>
            /\ throttle = [totalRequests |-> 0, percentageLoaded |-> 0,
                           loading |-> FALSE, errors |-> <<>>, values |-> <<>>]

\* The call with an empty list and a limit of 0 has completed.
C23_Witness ==
    \E r \in RunIds :
        /\ runs[r].requestsToMake = 0
        /\ runs[r].maxParallelRequests = 0
        /\ runs[r].pc = "done"

\* C24: a request is called once at most: a pending request that is called is
\* the next of the list, a request that has been called is never pending or
\* called again, finished or not; and a call that completes normally has
\* called every request of its list.
C24_SingleExecution ==
    [][\A r \in RunIds :
            LET run == runs[r]
                next == runs'[r]
            IN  r <= Len(runs') =>
                /\ \A u \in UnitIds(r) :
                    /\ run.unit[u] = "pending" =>
                            \/ next.unit[u] = "pending"
                            \/ (/\ next.unit[u] = "running"
                                /\ run.index < u
                                /\ u <= next.index)
                    /\ run.unit[u] = "running" => next.unit[u] # "pending"
                    /\ Finished(run, u) => Finished(next, u)
                /\ next.pc = "done" =>
                    /\ next.index = next.requestsToMake
                    /\ \A u \in UnitIds(r) : Finished(next, u)]_vars

\* A call with four requests and a limit of 2 has completed.
C24_Witness ==
    \E r \in RunIds :
        /\ runs[r].requestsToMake = 4
        /\ runs[r].maxParallelRequests = 2
        /\ runs[r].pc = "done"
        /\ \A u \in 1..4 : runs[r].unit[u] = "removed"

\* C25: a request of use10_000Requests finishes by returning, never by
\* rejecting; the step in which it finishes applies one 'requestSuccess' or one
\* 'requestFailed' to the snapshot; the then() callback that removes it from
\* the queue runs after that step and applies nothing; and a request that has
\* reported does not report again.
C25_OneReportPerUnit ==
    [][\A r \in RunIds : \A u \in UnitIds(r) :
            LET a == runs[r].unit[u]
                b == runs'[r].unit[u]
            IN  r <= Len(runs') =>
                /\ b \notin {"rejecting", "rejected"}
                /\ (a = "running" /\ b # "running") =>
                    /\ b = "fulfilled"
                    /\ \/ \E value \in Values :
                            throttle' = reducer(throttle,
                                [type |-> "requestSuccess", value |-> value])
                       \/ \E error \in Errors :
                            throttle' = reducer(throttle,
                                [type |-> "requestFailed", error |-> error])
                /\ (a = "fulfilled" /\ b # "fulfilled") =>
                    (b = "removed" /\ throttle' = throttle)
                /\ b = "removed" => a \in {"fulfilled", "removed"}
                /\ a = "removed" => b = "removed"]_vars

\* Request 1 reported an error and has been removed from the queue, request
\* 2 has reported a value and is still in it.
C25_Witness ==
    \E r \in RunIds :
        /\ runs[r].requestsToMake >= 2
        /\ runs[r].unit[1] = "removed"
        /\ runs[r].unit[2] = "fulfilled"
        /\ runs[r].queue[1] = 2
        /\ throttle.errors = <<"Error(net)">>
        /\ throttle.values = <<"{}">>

\* C26: the steps of throttleRequests leave the snapshot as it is: the then()
\* callback removing a request from the queue, the continuation of an await
\* (calling further requests, completing or failing), and the first stretch of
\* the call, which adds nothing to the 'initialise' queueRequests dispatched
\* before it. The snapshot changes only in a step that dispatches
\* 'initialise', 'requestSuccess' or 'requestFailed'.
C26_SchedulerFrame ==
    [][/\ \A r \in RunIds :
            (\/ runs'[r].pc # runs[r].pc
             \/ runs'[r].queue # runs[r].queue
             \/ runs'[r].index # runs[r].index) => throttle' = throttle
       /\ Len(runs') > Len(runs) =>
            throttle' = reducer(throttle,
                [type |-> "initialise",
                 totalRequests |-> runs'[Len(runs')].requestsToMake])
       /\ throttle' # throttle =>
            \/ Len(runs') > Len(runs)
            \/ \E r \in RunIds : \E u \in UnitIds(r) :
                /\ runs[r].unit[u] = "running"
                /\ runs' = [runs EXCEPT ![r].unit[u] = "fulfilled"]
                /\ \/ \E value \in Values :
                        throttle' = reducer(throttle,
                            [type |-> "requestSuccess", value |-> value])
                   \/ \E error \in Errors :
                        throttle' = reducer(throttle,
                            [type |-> "requestFailed", error |-> error])]_vars

\* A call has gone through all its steps, from its first request to its
\* completion, and the snapshot holds the two outcomes reported meanwhile.
C26_Witness ==
    \E r \in RunIds :
        /\ runs[r].requestsToMake = 2
        /\ runs[r].maxParallelRequests = 1
        /\ runs[r].pc = "done"
        /\ throttle.totalRequests = 2
        /\ Completed = 2

\* The queue of a call holds, once each, the requests that have been called
\* and whose then() callback has not run.
QueueIsInFlightSet(run) ==
    /\ \A i, j \in 1..Len(run.queue) : i # j => run.queue[i] # run.queue[j]
    /\ {run.queue[i] : i \in 1..Len(run.queue)} =
            {u \in 1..run.requestsToMake : run.unit[u] \notin {"pending", "removed"}}

\* C27: at every moment the queue holds exactly the requests called and not
\* yet processed; the then() callback of a request removes that request from
\* the queue and leaves the others in place, and a request once removed is not
\* in the queue again.
C27_Bookkeeping ==
    [][\A r \in RunIds :
            LET run == runs[r]
                next == runs'[r]
            IN  r <= Len(runs') =>
                /\ QueueIsInFlightSet(run)
                /\ QueueIsInFlightSet(next)
                /\ \A u \in UnitIds(r) :
                    /\ (run.unit[u] # "removed" /\ next.unit[u] = "removed") =>
                            /\ \E i \in 1..Len(run.queue) : run.queue[i] = u
                            /\ next.queue = SelectSeq(run.queue, LAMBDA x : x # u)
                            /\ Len(next.queue) = Len(run.queue) - 1
                    /\ run.unit[u] = "removed" => next.unit[u] = "removed"]_vars

\* With a limit of 3 the first request called has been removed from the
\* head of the queue; the two called after it are in the queue, one finished.
C27_Witness ==
    \E r \in RunIds :
        /\ runs[r].requestsToMake = 4
        /\ runs[r].maxParallelRequests = 3
        /\ runs[r].unit[1] = "removed"
        /\ runs[r].unit[2] = "running"
        /\ runs[r].unit[3] = "fulfilled"
        /\ runs[r].queue = <<2, 3>>

\* C28: in a snapshot a report produced for a batch with totalRequests > 0,
\* percentageLoaded is 100 exactly when loading is false; so it is below 100
\* while loading is true.
C28_PercentageAgreesWithLoading ==
    (last.action.type \in {"requestSuccess", "requestFailed"}
        /\ throttle.totalRequests > 0) =>
            (throttle.percentageLoaded = 100 <=> ~throttle.loading)

====
